---------------------------- MODULE Spec2Model ----------------------------
(***************************************************************************)
(* The augmentation endpoint (POST and retrieveData, in its two route      *)
(* files) and the chat page (Page) of laso-deepseek-prototype.             *)
(*                                                                         *)
(* Text is a sequence of tokens: one-character strings for what the user   *)
(* typed, longer strings for the fixed pieces of the prompt template and   *)
(* of JSON.  Two specifications share the endpoint's actions: Spec runs    *)
(* one request over the full input domain, ConcSpec runs two requests      *)
(* whose steps interleave at every await.  ClientSpec is the chat page.    *)
(***************************************************************************)
EXTENDS Naturals, Sequences, FiniteSets

VARIABLES
    \* ---- the endpoint ----
    active,      \* the requests in flight in this run
    env,         \* process.env: the four configuration values
    route,       \* which route file serves the request
    body,        \* the request body's messages, as received
    pc,          \* the position of each POST invocation
    messages,    \* POST's local array `messages` (mutated by the rewrite)
    context,     \* POST's local `context`
    response,    \* what the retrieval service answered to the request
    respData,    \* the JSON body of that answer
    error,       \* the Error the invocation threw
    retCalls,    \* the fetch calls issued to the retrieval service
    genCalls,    \* the streamText calls issued to the generation service
    \* ---- the chat page ----
    input,            \* useChat's input state
    chat,             \* useChat's messages state
    showPlaceholders,
    selectedOption,
    selectedMessage,
    shouldAutoScroll,
    showScrollButton,
    sent,             \* the Conversations submitted to the endpoint
    pending,          \* whether an answer is still awaited
    lastOp            \* the handler that ran last

endpointVars == <<active, env, route, body, pc, messages, context, response,
                  respData, error, retCalls, genCalls>>
clientVars == <<input, chat, showPlaceholders, selectedOption, selectedMessage,
                shouldAutoScroll, showScrollButton, sent, pending, lastOp>>
vars == <<endpointVars, clientVars>>

----------------------------------------------------------------------------
(* Bounds *)

MaxTurns == 3
MaxChunks == 2
MaxSubmits == 2

----------------------------------------------------------------------------
(* Text *)

\* t occurs in s as a contiguous run of tokens
Contains(s, t) ==
    \E i \in 0..Len(s) :
        /\ i + Len(t) <= Len(s)
        /\ SubSeq(s, i + 1, i + Len(t)) = t

\* The contents a Turn can carry: empty, one character, several characters.
Texts == { <<>>, <<"a">>, <<"b", "a">> }
Roles == { "user", "assistant" }
Turns == [role : Roles, content : Texts]

SeqsUpTo(S, n) == UNION { [1..k -> S] : k \in 0..n }

Bodies == SeqsUpTo(Turns, MaxTurns)

----------------------------------------------------------------------------
(* JSON values the retrieval service can answer with *)

Chunks == { [sourceIndex |-> 1, sourceUrl |-> "A"],
            [sourceIndex |-> 2, sourceUrl |-> "B"] }

JsNull == [kind |-> "null", items |-> <<>>]
JsFalse == [kind |-> "false", items |-> <<>>]
JsArray(cs) == [kind |-> "array", items |-> cs]

\* no answer read yet
NoData == [kind |-> "none", items |-> <<>>]

Data == { JsNull, JsFalse } \cup { JsArray(cs) : cs \in SeqsUpTo(Chunks, MaxChunks) }

\* JavaScript's ToBoolean: null and false are falsy, every array is truthy
\* (the empty one too).  0 and "" behave as false does.
Truthy(d) == d.kind = "array"

NumToken(i) == IF i = 1 THEN "1" ELSE "2"

StringifyChunk(c) ==
    << "{", "\"sourceIndex\":", NumToken(c.sourceIndex), ",",
       "\"sourceUrl\":", c.sourceUrl, "}" >>

RECURSIVE StringifyItems(_)
StringifyItems(cs) ==
    IF cs = <<>> THEN <<>>
    ELSE IF Len(cs) = 1 THEN StringifyChunk(cs[1])
    ELSE StringifyChunk(cs[1]) \o << "," >> \o StringifyItems(Tail(cs))

StringifyFirstOnly(d) ==
    IF d.kind = "null" THEN << "null" >>
    ELSE IF d.kind = "false" THEN << "false" >>
    ELSE << "[" >> \o (IF d.items = <<>> THEN <<>> ELSE StringifyChunk(d.items[1]))
         \o << "]" >>

JSONStringify(d) ==
    IF d.kind = "null" THEN << "null" >>
    ELSE IF d.kind = "false" THEN << "false" >>
    ELSE << "[" >> \o StringifyItems(d.items) \o << "]" >>

----------------------------------------------------------------------------
(* The prompt template of each route file *)

Routes == { "part_000", "part_001" }

TemplateHead(rt) ==
    IF rt = "part_000"
    THEN << "\n", "You are tasked with generating a treatment plan ...", "\n",
            "Here is the question you need to answer:", "\n", "<question>", "\n" >>
    ELSE << "\n", "Generate a detailed treatment plan ...", "\n",
            "Output Structure: ...", "\n",
            "Here is the patient info where you need to generate treatment plan:",
            "\n", "<question>", "\n" >>

TemplateMid ==
    << "\n", "</question>", "\n",
       "Below are chunks of information that you can use ...", "\n",
       "<chunks>", "\n" >>

TemplateTail(rt) ==
    IF rt = "part_000"
    THEN << "\n", "</chunks>", "\n", "Your task is to answer the question ...",
            "The citation format should be as follows:", "[Chunk source](URL)",
            "\n" >>
    ELSE << "\n", "</chunks>", "\n" >>

\* The template literal assigned to the last message's content
RewrittenPrompt(rt, question, ctx) ==
    TemplateHead(rt) \o question \o TemplateMid \o JSONStringify(ctx)
        \o TemplateTail(rt)

SystemPrompt == "You are the best Hypertension Doctor ..."


----------------------------------------------------------------------------
(* process.env *)

Undefined == "undefined"

\* Every combination of set and unset values.  An empty string is rejected
\* by the same `!value` tests as an unset one.
Envs ==
    [ MODEL : { Undefined, "deepseek-r1" },
      VECTORIZE_TOKEN : { Undefined, "token-1" },
      VECTORIZE_RETRIEVAL_URL : { Undefined, "https://retrieval" },
      GROQ_API_KEY : { Undefined, "gsk-1" } ]

Unset(v) == v = Undefined

----------------------------------------------------------------------------
(* Errors *)

NoError == [msg |-> "", detail |-> ""]
ErrModel == [msg |-> "MODEL is not set in the environment variables.", detail |-> ""]
ErrToken ==
    [msg |-> "VECTORIZE_TOKEN is not set in the environment variables.", detail |-> ""]
ErrUrl == [msg |-> "pipelineRetrievalUrl is not set.", detail |-> ""]
ErrGroqKey ==
    [msg |-> "GROQ_API_KEY is not set in the environment variables.", detail |-> ""]
ErrFetchFailed(statusText) == [msg |-> "Failed to fetch data: ", detail |-> statusText]
ErrNetwork == [msg |-> "fetch failed", detail |-> ""]
ErrBadJson == [msg |-> "Unexpected token in JSON", detail |-> ""]

----------------------------------------------------------------------------
(* The retrieval service's answers *)

NoResponse == [status |-> 0, statusText |-> ""]
Responses == { [status |-> 200, statusText |-> "OK"],
               [status |-> 404, statusText |-> "Not Found"],
               [status |-> 500, statusText |-> "Internal Server Error"] }

ResponseOkAlways(rsp) == TRUE

\* Response.ok
ResponseOk(rsp) == rsp.status >= 200 /\ rsp.status <= 299

----------------------------------------------------------------------------
(* retrieveData, up to its fetch *)

NumResults == 5

\* String(content).  A Turn's content is text (spec, Data Model; useChat sends
\* strings), and String returns a string unchanged.
ToString(content) == content

LastTurn(msgs) == msgs[Len(msgs)]

\* messages.slice(0, -1)
PreviousMessages(msgs) == SubSeq(msgs, 1, Len(msgs) - 1)

\* The first failing presence test, in the order the code makes them
RetrieveDataError(e) ==
    IF Unset(e.VECTORIZE_TOKEN) THEN ErrToken
    ELSE IF Unset(e.VECTORIZE_RETRIEVAL_URL) THEN ErrUrl
    ELSE IF Unset(e.GROQ_API_KEY) THEN ErrGroqKey
    ELSE NoError

IncludeContextAlways(prev) == TRUE

\* `messages && messages.length > 0`
IncludeContext(prev) == Len(prev) > 0

Payload(question, prev) ==
    IF IncludeContext(prev)
    THEN [question |-> question, numResults |-> NumResults, rerank |-> TRUE,
          context |-> [messages |-> prev]]
    ELSE [question |-> question, numResults |-> NumResults, rerank |-> TRUE]

\* The fetch: url, headers and the payload that JSON.stringify puts in the body
\* (kept structured: the service reads the same fields back).
RetrievalRequest(e, question, prev) ==
    [ url |-> e.VECTORIZE_RETRIEVAL_URL,
      method |-> "POST",
      headers |-> [ContentType |-> "application/json",
                   Authorization |-> e.VECTORIZE_TOKEN],
      body |-> Payload(question, prev) ]

----------------------------------------------------------------------------
(* POST *)

Requests == { 1, 2 }

\* `messages.length > 0 && context`
ShouldRewrite(msgs, ctx) == Len(msgs) > 0 /\ Truthy(ctx)

RewriteAsUserTurn(rt, msgs, ctx) ==
    IF ShouldRewrite(msgs, ctx)
    THEN [msgs EXCEPT ![Len(msgs)] =
              [role |-> "user",
               content |-> RewrittenPrompt(rt, msgs[Len(msgs)].content, ctx)]]
    ELSE msgs

\* messages[messages.length - 1].content = `...`: the array is changed in place
Rewrite(rt, msgs, ctx) ==
    IF ShouldRewrite(msgs, ctx)
    THEN [msgs EXCEPT ![Len(msgs)].content =
              RewrittenPrompt(rt, msgs[Len(msgs)].content, ctx)]
    ELSE msgs

GenerationRequest(e, msgs) ==
    [model |-> e.MODEL, system |-> SystemPrompt, messages |-> msgs]

SetContextShared(ctx, r, d) == [q \in Requests |-> d]

\* `let context = null` is local to the invocation
SetContext(ctx, r, d) == [ctx EXCEPT ![r] = d]

\* POST is entered and suspends on `await req.json()`
PostBegin(r) ==
    /\ r \in active
    /\ pc[r] = "init"
    /\ pc' = [pc EXCEPT ![r] = "parsing"]
    /\ UNCHANGED <<active, env, route, body, messages, context, response,
                   respData, error, retCalls, genCalls, clientVars>>

\* the body is parsed and MODEL is unset: POST throws
PostModelMissing(r) ==
    /\ r \in active
    /\ pc[r] = "parsing"
    /\ Unset(env.MODEL)
    /\ messages' = [messages EXCEPT ![r] = body[r]]
    /\ error' = [error EXCEPT ![r] = ErrModel]
    /\ pc' = [pc EXCEPT ![r] = "failed"]
    /\ UNCHANGED <<active, env, route, body, context, response, respData,
                   retCalls, genCalls, clientVars>>

PostNoMessagesReturnsEarly(r) ==
    /\ r \in active
    /\ pc[r] = "parsing"
    /\ ~Unset(env.MODEL)
    /\ Len(body[r]) = 0
    /\ messages' = [messages EXCEPT ![r] = body[r]]
    /\ pc' = [pc EXCEPT ![r] = "responded"]
    /\ UNCHANGED <<active, env, route, body, context, response, respData,
                   error, retCalls, genCalls, clientVars>>

\* no messages: retrieveData is skipped, the rewrite's test is false, and
\* streamText is called with the array as parsed
PostNoMessages(r) ==
    /\ r \in active
    /\ pc[r] = "parsing"
    /\ ~Unset(env.MODEL)
    /\ Len(body[r]) = 0
    /\ messages' = [messages EXCEPT ![r] = Rewrite(route[r], body[r], context[r])]
    /\ genCalls' = [genCalls EXCEPT ![r] =
           Append(@, GenerationRequest(env, Rewrite(route[r], body[r], context[r])))]
    /\ pc' = [pc EXCEPT ![r] = "streaming"]
    /\ UNCHANGED <<active, env, route, body, context, response, respData,
                   error, retCalls, clientVars>>

\* retrieveData throws on the first configuration value that is unset
RetrieveDataThrows(r) ==
    /\ r \in active
    /\ pc[r] = "parsing"
    /\ ~Unset(env.MODEL)
    /\ Len(body[r]) > 0
    /\ RetrieveDataError(env) # NoError
    /\ messages' = [messages EXCEPT ![r] = body[r]]
    /\ error' = [error EXCEPT ![r] = RetrieveDataError(env)]
    /\ pc' = [pc EXCEPT ![r] = "failed"]
    /\ UNCHANGED <<active, env, route, body, context, response, respData,
                   retCalls, genCalls, clientVars>>

\* retrieveData builds the payload and issues the fetch
RetrieveDataFetch(r) ==
    /\ r \in active
    /\ pc[r] = "parsing"
    /\ ~Unset(env.MODEL)
    /\ Len(body[r]) > 0
    /\ RetrieveDataError(env) = NoError
    /\ messages' = [messages EXCEPT ![r] = body[r]]
    /\ retCalls' = [retCalls EXCEPT ![r] =
           Append(@, RetrievalRequest(env, ToString(LastTurn(body[r]).content),
                                      PreviousMessages(body[r])))]
    /\ pc' = [pc EXCEPT ![r] = "fetching"]
    /\ UNCHANGED <<active, env, route, body, context, response, respData,
                   error, genCalls, clientVars>>

\* the fetch resolves: a response that is not ok makes retrieveData throw
FetchResolves(r) ==
    /\ r \in active
    /\ pc[r] = "fetching"
    /\ \E rsp \in Responses :
        /\ response' = [response EXCEPT ![r] = rsp]
        /\ IF ResponseOk(rsp)
           THEN /\ pc' = [pc EXCEPT ![r] = "readingJson"]
                /\ error' = error
           ELSE /\ pc' = [pc EXCEPT ![r] = "failed"]
                /\ error' = [error EXCEPT ![r] = ErrFetchFailed(rsp.statusText)]
    /\ UNCHANGED <<active, env, route, body, messages, context, respData,
                   retCalls, genCalls, clientVars>>

\* the fetch rejects (no connection): the rejection propagates out of POST
FetchRejects(r) ==
    /\ r \in active
    /\ pc[r] = "fetching"
    /\ error' = [error EXCEPT ![r] = ErrNetwork]
    /\ pc' = [pc EXCEPT ![r] = "failed"]
    /\ UNCHANGED <<active, env, route, body, messages, context, response,
                   respData, retCalls, genCalls, clientVars>>

\* What the retrieval service may answer in a run: every JSON value of Data
\* when one request runs, a null, an empty list and two different chunk lists
\* when two interleave.
DataChoices ==
    IF Cardinality(active) = 1 THEN Data
    ELSE { JsNull, JsArray(<<>>),
           JsArray(<< [sourceIndex |-> 1, sourceUrl |-> "A"] >>),
           JsArray(<< [sourceIndex |-> 2, sourceUrl |-> "B"],
                      [sourceIndex |-> 1, sourceUrl |-> "A"] >>) }

\* `await response.json()` resolves and retrieveData returns the data, which
\* POST assigns to context
ResponseJson(r) ==
    /\ r \in active
    /\ pc[r] = "readingJson"
    /\ \E d \in DataChoices :
        /\ respData' = [respData EXCEPT ![r] = d]
        /\ context' = SetContext(context, r, d)
    /\ pc' = [pc EXCEPT ![r] = "gotContext"]
    /\ UNCHANGED <<active, env, route, body, messages, response, error,
                   retCalls, genCalls, clientVars>>

\* the answer's body is not JSON: response.json() rejects
ResponseJsonRejects(r) ==
    /\ r \in active
    /\ pc[r] = "readingJson"
    /\ error' = [error EXCEPT ![r] = ErrBadJson]
    /\ pc' = [pc EXCEPT ![r] = "failed"]
    /\ UNCHANGED <<active, env, route, body, messages, context, response,
                   respData, retCalls, genCalls, clientVars>>

\* POST resumes after retrieveData: the rewrite, then the streamText call
PostRewriteAndGenerate(r) ==
    /\ r \in active
    /\ pc[r] = "gotContext"
    /\ messages' = [messages EXCEPT ![r] = Rewrite(route[r], messages[r], context[r])]
    /\ genCalls' = [genCalls EXCEPT ![r] =
           Append(@, GenerationRequest(env, Rewrite(route[r], messages[r], context[r])))]
    /\ pc' = [pc EXCEPT ![r] = "streaming"]
    /\ UNCHANGED <<active, env, route, body, context, response, respData,
                   error, retCalls, clientVars>>

\* streamText's result is returned as the data stream response
StreamTextReturns(r) ==
    /\ r \in active
    /\ pc[r] = "streaming"
    /\ pc' = [pc EXCEPT ![r] = "responded"]
    /\ UNCHANGED <<active, env, route, body, messages, context, response,
                   respData, error, retCalls, genCalls, clientVars>>

----------------------------------------------------------------------------
(* The chat page before anything happened *)

NoOption == [emoji |-> "", text |-> <<>>]
NoMessage == [role |-> "", content |-> <<>>]

ClientInit ==
    /\ input = <<>>
    /\ chat = <<>>
    /\ showPlaceholders = TRUE
    /\ selectedOption = NoOption
    /\ selectedMessage = NoMessage
    /\ shouldAutoScroll = TRUE
    /\ showScrollButton = FALSE
    /\ sent = <<>>
    /\ pending = FALSE
    /\ lastOp = "none"

----------------------------------------------------------------------------
(* The endpoint's specifications *)

\* The bodies of two interleaved requests
ConcBodies ==
    { <<>>,
      << [role |-> "user", content |-> <<"a">>] >>,
      << [role |-> "user", content |-> <<"a">>],
         [role |-> "assistant", content |-> <<"b", "a">>],
         [role |-> "user", content |-> <<"b", "a">>] >> }

EndpointInit(reqs, bodies, envs) ==
    /\ active = reqs
    /\ env \in envs
    /\ route \in [Requests -> Routes]
    /\ body \in [Requests -> bodies]
    /\ \A r \in Requests \ reqs : route[r] = "part_000" /\ body[r] = <<>>
    /\ pc = [r \in Requests |-> IF r \in reqs THEN "init" ELSE "idle"]
    /\ messages = [r \in Requests |-> <<>>]
    /\ context = [r \in Requests |-> JsNull]
    /\ response = [r \in Requests |-> NoResponse]
    /\ respData = [r \in Requests |-> NoData]
    /\ error = [r \in Requests |-> NoError]
    /\ retCalls = [r \in Requests |-> <<>>]
    /\ genCalls = [r \in Requests |-> <<>>]
    /\ ClientInit

Init == EndpointInit({1}, Bodies, Envs)

ConcInit == EndpointInit(Requests, ConcBodies, Envs)

Next ==
    \E r \in Requests :
        \/ PostBegin(r)
        \/ PostModelMissing(r)
        \/ PostNoMessages(r)
        \/ RetrieveDataThrows(r)
        \/ RetrieveDataFetch(r)
        \/ FetchResolves(r)
        \/ FetchRejects(r)
        \/ ResponseJson(r)
        \/ ResponseJsonRejects(r)
        \/ PostRewriteAndGenerate(r)
        \/ StreamTextReturns(r)

Spec == Init /\ [][Next]_vars

ConcSpec == ConcInit /\ [][Next]_vars

----------------------------------------------------------------------------
(* The chat page: Page and the useChat state it renders from              *)
(*                                                                         *)
(* A handler runs inside the render that created it: the `input` and       *)
(* `messages` it reads are that render's values, and a state setter takes  *)
(* effect with the next render, after the handler has returned.            *)

placeholderOptions ==
    << [emoji |-> "zap", text |-> << "What is Hypertension?" >>],
       [emoji |-> "robot", text |-> << "How do I improve my health?" >>],
       [emoji |-> "star", text |-> << "What is Cardiovascular Disease?" >>] >>

Answers == { << "answer" >> }

UserTurn(text) == [role |-> "user", content |-> text]

\* useChat's handleSubmit, run with the input its render holds: nothing is
\* sent for an empty input, otherwise a user Turn is appended and sent
SubmitMessages(seen, msgs) ==
    IF seen = <<>> THEN msgs ELSE Append(msgs, UserTurn(seen))

SubmitSent(seen, msgs, log) ==
    IF seen = <<>> THEN log ELSE Append(log, SubmitMessages(seen, msgs))

\* handleSubmit ends with setInput(""), unless it returned early
SubmitInput(seen, queued) == IF seen = <<>> THEN queued ELSE <<>>

\* the suggestion buttons are rendered
SuggestionsShown == showPlaceholders /\ Len(chat) = 0

\* onChange of the input box
handleInputChange(v) ==
    /\ input' = v
    /\ lastOp' = "inputChange"
    /\ UNCHANGED <<chat, showPlaceholders, selectedOption, selectedMessage,
                   shouldAutoScroll, showScrollButton, sent, pending,
                   endpointVars>>

\* onSubmit of the form
handleSubmit ==
    /\ Len(sent) < MaxSubmits
    /\ chat' = SubmitMessages(input, chat)
    /\ sent' = SubmitSent(input, chat, sent)
    /\ input' = SubmitInput(input, input)
    /\ pending' = (pending \/ input # <<>>)
    /\ lastOp' = "submit"
    /\ UNCHANGED <<showPlaceholders, selectedOption, selectedMessage,
                   shouldAutoScroll, showScrollButton, endpointVars>>

\* a tap on suggestion i: handleInputChange queues the suggestion's text, and
\* handleSubmit, called in the same render, still reads that render's input
handleOptionSelect(i) ==
    /\ SuggestionsShown
    /\ Len(sent) < MaxSubmits
    /\ selectedOption' = placeholderOptions[i]
    /\ showPlaceholders' = FALSE
    /\ chat' = SubmitMessages(input, chat)
    /\ sent' = SubmitSent(input, chat, sent)
    /\ input' = SubmitInput(input, placeholderOptions[i].text)
    /\ pending' = (pending \/ input # <<>>)
    /\ lastOp' = "optionSelect"
    /\ UNCHANGED <<selectedMessage, shouldAutoScroll, showScrollButton,
                   endpointVars>>

handleNewChatKeepsPlaceholders ==
    /\ chat' = <<>>
    /\ lastOp' = "newChat"
    /\ UNCHANGED <<input, showPlaceholders, selectedOption, selectedMessage,
                   shouldAutoScroll, showScrollButton, sent, pending,
                   endpointVars>>

handleNewChat ==
    /\ chat' = <<>>
    /\ showPlaceholders' = TRUE
    /\ lastOp' = "newChat"
    /\ UNCHANGED <<input, selectedOption, selectedMessage, shouldAutoScroll,
                   showScrollButton, sent, pending, endpointVars>>

\* onScroll of the message list
handleScroll(isAtBottom) ==
    /\ shouldAutoScroll' = isAtBottom
    /\ showScrollButton' = ~isAtBottom
    /\ lastOp' = "scroll"
    /\ UNCHANGED <<input, chat, showPlaceholders, selectedOption,
                   selectedMessage, sent, pending, endpointVars>>

\* "View Details" of Turn i
viewDetails(i) ==
    /\ i \in 1..Len(chat)
    /\ selectedMessage' = chat[i]
    /\ lastOp' = "viewDetails"
    /\ UNCHANGED <<input, chat, showPlaceholders, selectedOption,
                   shouldAutoScroll, showScrollButton, sent, pending,
                   endpointVars>>

\* the dialog's close button, or a click on its backdrop
closeDetails ==
    /\ selectedMessage # NoMessage
    /\ selectedMessage' = NoMessage
    /\ lastOp' = "closeDetails"
    /\ UNCHANGED <<input, chat, showPlaceholders, selectedOption,
                   shouldAutoScroll, showScrollButton, sent, pending,
                   endpointVars>>

\* the endpoint's answer arrives: useChat sets messages to the Conversation
\* it sent followed by the assistant's Turn
receiveAnswer(text) ==
    /\ pending
    /\ chat' = Append(sent[Len(sent)], [role |-> "assistant", content |-> text])
    /\ pending' = FALSE
    /\ lastOp' = "answer"
    /\ UNCHANGED <<input, showPlaceholders, selectedOption, selectedMessage,
                   shouldAutoScroll, showScrollButton, sent, endpointVars>>

ClientSpecInit ==
    EndpointInit({}, { <<>> }, { [MODEL |-> Undefined, VECTORIZE_TOKEN |-> Undefined,
                                  VECTORIZE_RETRIEVAL_URL |-> Undefined,
                                  GROQ_API_KEY |-> Undefined] })

ClientNext ==
    \/ \E v \in Texts : handleInputChange(v)
    \/ handleSubmit
    \/ \E i \in 1..Len(placeholderOptions) : handleOptionSelect(i)
    \/ handleNewChat
    \/ \E isAtBottom \in BOOLEAN : handleScroll(isAtBottom)
    \/ \E i \in 1..(2 * MaxSubmits) : viewDetails(i)
    \/ closeDetails
    \/ \E text \in Answers : receiveAnswer(text)

ClientSpec == ClientSpecInit /\ [][ClientNext]_vars

----------------------------------------------------------------------------
(* Claims about the endpoint *)

ConfigPresent == \A v \in { env.MODEL, env.VECTORIZE_TOKEN,
                            env.VECTORIZE_RETRIEVAL_URL, env.GROQ_API_KEY } :
                     v # Undefined

\* the invocation has called streamText
Generating(r) == pc[r] \in { "streaming", "responded" }

\* the invocation is past its configuration tests
PastConfig(r) == pc[r] \notin { "idle", "init", "parsing" }

\* the error that names configuration value `name`
ConfigError(name) ==
    IF name = "MODEL" THEN ErrModel
    ELSE IF name = "VECTORIZE_TOKEN" THEN ErrToken
    ELSE IF name = "VECTORIZE_RETRIEVAL_URL" THEN ErrUrl
    ELSE ErrGroqKey

\* C1: if a required configuration value (MODEL, VECTORIZE_TOKEN,
\* VECTORIZE_RETRIEVAL_URL, GROQ_API_KEY) is absent, then whatever the body,
\* the empty Conversation included, a request that is past its configuration
\* tests has failed with the error of an absent value, and neither the
\* retrieval service nor the generation service has been called.
C1_ConfigAbsentFailsBeforeAnyCall ==
    \A r \in active :
        (~ConfigPresent /\ PastConfig(r)) =>
            /\ pc[r] = "failed"
            /\ \E name \in DOMAIN env :
                   env[name] = Undefined /\ error[r] = ConfigError(name)
            /\ retCalls[r] = <<>>
            /\ genCalls[r] = <<>>

\* C2: for a Conversation with zero Turns and the configuration present, the
\* retrieval service is never called, the request does not fail, and once
\* POST has gone past its parse the generation service has been called exactly
\* once, with an empty Conversation.
C2_EmptyConversationSkipsRetrieval ==
    \A r \in active :
        (body[r] = <<>> /\ ConfigPresent) =>
            /\ retCalls[r] = <<>>
            /\ Len(genCalls[r]) <= 1
            /\ PastConfig(r) =>
                   /\ Generating(r)
                   /\ Len(genCalls[r]) = 1
                   /\ genCalls[r][1].messages = <<>>

C2_Witness ==
    \E r \in active :
        /\ body[r] = <<>>
        /\ ConfigPresent
        /\ pc[r] = "responded"
        /\ Len(genCalls[r]) = 1

SuccessStatus(rsp) == rsp.status \in 200..299

\* C3: for a non-empty Conversation, retrieval is called at most once, the
\* generation service is called only after the retrieval call has returned
\* a success status and its data; and when the retrieval service answers with
\* a non-success status the request has failed with "Failed to fetch data: "
\* and the status text, generation was not called, and retrieval was called
\* exactly once.
C3_GenerationOnlyAfterRetrieval ==
    \A r \in active :
        Len(body[r]) > 0 =>
            /\ Len(retCalls[r]) <= 1
            /\ genCalls[r] # <<>> =>
                   /\ Len(retCalls[r]) = 1
                   /\ SuccessStatus(response[r])
                   /\ respData[r] # NoData
            /\ (response[r] # NoResponse /\ ~SuccessStatus(response[r])) =>
                   /\ pc[r] = "failed"
                   /\ error[r] = ErrFetchFailed(response[r].statusText)
                   /\ genCalls[r] = <<>>
                   /\ Len(retCalls[r]) = 1

C3_Witness ==
    \E r \in active :
        /\ Len(body[r]) > 0
        /\ response[r].status = 500
        /\ pc[r] = "failed"
        /\ Len(retCalls[r]) = 1

\* C4: when the last Turn's content is not empty and retrieval returned a
\* non-empty chunk list, the content of the last Turn given to the generation
\* service contains the question as received and the serialization of every
\* returned chunk.
C4_RewriteContainsQuestionAndChunks ==
    \A r \in active :
        ( /\ Generating(r)
          /\ Len(body[r]) > 0
          /\ LastTurn(body[r]).content # <<>>
          /\ respData[r].kind = "array"
          /\ respData[r].items # <<>> ) =>
            LET forwarded == LastTurn(genCalls[r][1].messages).content
            IN  /\ Contains(forwarded, LastTurn(body[r]).content)
                /\ \A i \in 1..Len(respData[r].items) :
                       Contains(forwarded, StringifyChunk(respData[r].items[i]))

C4_Witness ==
    \E r \in active :
        /\ Generating(r)
        /\ Len(body[r]) > 1
        /\ LastTurn(body[r]).content = <<"b", "a">>
        /\ respData[r].kind = "array"
        /\ Len(respData[r].items) = 2
        /\ respData[r].items[1] # respData[r].items[2]

\* C5: when retrieval succeeds with a null or an empty result, the
\* Conversation given to the generation service is the one received.
C5_NoContextForwardsUnmodified ==
    \A r \in active :
        ( /\ Generating(r)
          /\ Len(body[r]) > 0
          /\ respData[r] \in { JsNull, JsArray(<<>>) } ) =>
            genCalls[r][1].messages = body[r]

\* C6: every request sent to the retrieval service carries the last Turn's
\* content as question, numResults 5, rerank true and the credential in the
\* Authorization header; it has a context field exactly when there is a
\* prior Turn, and that field holds the prior Turns in their order.
C6_RetrievalRequestShape ==
    \A r \in active :
        \A i \in 1..Len(retCalls[r]) :
            LET req == retCalls[r][i]
                payload == req.body
            IN  /\ payload.question = LastTurn(body[r]).content
                /\ payload.numResults = 5
                /\ payload.rerank = TRUE
                /\ req.headers.Authorization = env.VECTORIZE_TOKEN
                /\ env.VECTORIZE_TOKEN # Undefined
                /\ DOMAIN payload \subseteq
                       { "question", "numResults", "rerank", "context" }
                /\ ("context" \in DOMAIN payload) <=> (Len(body[r]) > 1)
                /\ ("context" \in DOMAIN payload) =>
                       payload.context.messages =
                           [k \in 1..(Len(body[r]) - 1) |-> body[r][k]]

C6_Witness ==
    \E r \in active :
        /\ Len(retCalls[r]) = 1
        /\ Len(body[r]) >= 3
        /\ body[r][1] # body[r][2]
        /\ "context" \in DOMAIN retCalls[r][1].body

\* what request r holds of its own
Local(r) == << route[r], body[r], messages[r], context[r], response[r],
               respData[r], error[r], retCalls[r], genCalls[r] >>

\* the context POST holds when run alone on a body and an answer
ContextAlone(b, d) == IF Len(b) = 0 THEN JsNull ELSE d

C8_Independent ==
    \A r \in active :
        /\ retCalls[r] # <<>> =>
               retCalls[r] = << RetrievalRequest(env, LastTurn(body[r]).content,
                                                 PreviousMessages(body[r])) >>
        /\ genCalls[r] # <<>> =>
               genCalls[r] = << GenerationRequest(env,
                                   Rewrite(route[r], body[r],
                                           ContextAlone(body[r], respData[r]))) >>

C8_Frame == \A r \in Requests : pc'[r] = pc[r] => Local(r)' = Local(r)

\* C8: under every interleaving of two requests, the retrieval request and
\* the Conversation given to the generation service are, for each request,
\* what its own body and its own retrieval answer produce when it runs alone,
\* and a step of one request changes nothing another request holds.
C8_ConcurrentRequestsIndependent == []C8_Independent /\ [][C8_Frame]_vars

C8_Witness ==
    /\ pc[1] = "gotContext"
    /\ pc[2] = "gotContext"
    /\ body[1] # body[2]
    /\ Truthy(context[1])
    /\ Truthy(context[2])
    /\ context[1] # context[2]

----------------------------------------------------------------------------
(* Claims about the chat page *)

\* C9: after a tap on a quick-start suggestion the Conversation ends with a
\* user Turn whose content is the tapped suggestion's text, that Conversation
\* has been submitted to the endpoint, and the page is not left with an empty
\* Conversation and the suggestions hidden.
C9_OptionTapSubmitsSuggestion ==
    lastOp = "optionSelect" =>
        /\ chat # <<>>
        /\ LastTurn(chat) = UserTurn(selectedOption.text)
        /\ sent # <<>>
        /\ LastTurn(sent) = chat
        /\ ~(chat = <<>> /\ ~showPlaceholders)

\* C10: right after the "new chat" action the Conversation is empty and
\* showPlaceholders is true, so the quick-start suggestions are rendered,
\* whatever was typed, submitted, tapped, scrolled or opened before.
C10_NewChatRestoresSuggestions ==
    lastOp = "newChat" =>
        /\ chat = <<>>
        /\ showPlaceholders = TRUE
        /\ SuggestionsShown

C10_Witness ==
    /\ lastOp = "newChat"
    /\ sent # <<>>
    /\ selectedOption # NoOption
    /\ selectedMessage # NoMessage
    /\ showScrollButton

----------------------------------------------------------------------------
(* The frame of the rewrite *)

\* C11: the Conversation given to the generation service has as many Turns
\* as the request body, every Turn before the last is the one received, the
\* last Turn has the role it was received with (user or not) and a content
\* that is either the one received or the prompt built from it; the array is
\* still as received while the retrieval call is outstanding, and that call
\* carries the last Turn's content as received.
C11_RewriteChangesOnlyLastContent ==
    \A r \in active :
        /\ pc[r] \in { "fetching", "readingJson", "gotContext" } =>
               /\ messages[r] = body[r]
               /\ genCalls[r] = <<>>
        /\ \A i \in 1..Len(retCalls[r]) :
               retCalls[r][i].body.question = body[r][Len(body[r])].content
        /\ \A i \in 1..Len(genCalls[r]) :
               LET forwarded == genCalls[r][i].messages
                   n == Len(body[r])
               IN  /\ Len(forwarded) = n
                   /\ \A k \in 1..n : forwarded[k].role = body[r][k].role
                   /\ \A k \in 1..(n - 1) : forwarded[k] = body[r][k]
                   /\ n > 0 =>
                          \/ forwarded[n].content = body[r][n].content
                          \/ forwarded[n].content =
                                 TemplateHead(route[r]) \o body[r][n].content
                                     \o TemplateMid \o JSONStringify(respData[r])
                                     \o TemplateTail(route[r])

C11_Witness ==
    \E r \in active :
        /\ Generating(r)
        /\ Len(body[r]) = 3
        /\ body[r][1] # body[r][2]
        /\ body[r][3].role = "assistant"
        /\ Len(retCalls[r]) = 1
        /\ genCalls[r][1].messages # body[r]
============================================================================
